---- MODULE Spec2Model ----
(***************************************************************************)
(* Scanner (lex) and recursive-descent parser (Parser) of                  *)
(* simple-flex-bison-tree.py.                                              *)
(*                                                                         *)
(* A text is a sequence of one-character strings.  A Token is a record     *)
(* [type, value].  A Node is a record [name, children, token] where token  *)
(* is <<>> for None and <<tok>> otherwise.                                 *)
(***************************************************************************)
EXTENDS Integers, Sequences, FiniteSets, TLC

VARIABLES
    text,        \* lex: the argument `text`
    scan,        \* lex: the offset at which finditer looks for the next match
    lex_tokens,  \* lex: the local list `tokens`
    lex_state,   \* "idle" | "scanning" | "returned" | "raised"
    lex_error,   \* <<>> or <<value>>: the value the RuntimeError of lex carries
    main,        \* __main__: "read" | "lexing" | "lexed" | "parsing" | "reported" | "api"
    main_tokens, \* __main__: <<>> while `tokens` is unassigned, else <<the list>>
    tokens,      \* Parser.tokens
    pos,         \* Parser.pos
    stack,       \* the call stack of S/F/T/E, innermost frame last
    status,      \* "none" | "ready" | "running" | "done" | "error"
    result,      \* <<>> or <<tree>>: what parse() returned
    error        \* <<>> or <<record>>: what the exception of the parse carries

lexvars == <<text, scan, lex_tokens, lex_state, lex_error, main_tokens>>
parservars == <<tokens, pos, stack, status, result, error>>
vars == <<text, scan, lex_tokens, lex_state, lex_error, main, main_tokens,
          tokens, pos, stack, status, result, error>>

(***************************************************************************)
(* Bounds                                                                  *)
(***************************************************************************)
MaxShort == 3     \* parser: every token sequence of at most MaxShort tokens
MaxExpr == 7      \* parser: every statement whose expression has at most MaxExpr tokens
MaxPieces == 2    \* scanner: every text of at most MaxPieces pieces

(***************************************************************************)
(* Token and Node                                                          *)
(***************************************************************************)
Kinds == {"ASSIGN", "OP_NOT", "OP_AND", "OP_OR", "OP_XOR", "LPAREN", "RPAREN",
          "SEMICOLON", "CONST", "HEX", "ROMAN", "IDENT"}

Token(type, value) == [type |-> type, value |-> value]

Node(name, children, token) == [name |-> name, children |-> children, token |-> token]

(***************************************************************************)
(* Parser.peek and Parser.match, on the current tokens and pos.  The       *)
(* Python index tokens[pos] is tokens[pos + 1] here.                       *)
(***************************************************************************)
Peek(token_type) ==
    pos < Len(tokens) /\ tokens[pos + 1].type = token_type

\* Mutant of Advance: the cursor skips a token.
AdvanceTwo(p) == p + 2

Advance(p) == p + 1

MatchOk(expected_type) ==
    pos < Len(tokens) /\ tokens[pos + 1].type = expected_type

MatchNode == Node(tokens[pos + 1].value, <<>>, <<tokens[pos + 1]>>)

MatchError(expected_type) ==
    [kind |-> "RuntimeError",
     expected |-> expected_type,
     actual |-> IF pos < Len(tokens) THEN tokens[pos + 1].type ELSE "EOF"]

ExpressionError == [kind |-> "RuntimeError", message |-> "expected expression"]

IndexError == [kind |-> "IndexError"]

(***************************************************************************)
(* Frames of the call stack: the method, the line it is at, and the nodes  *)
(* it holds in its locals, in the order it obtained them.                  *)
(***************************************************************************)
Frame(proc, pc, locals) == [proc |-> proc, pc |-> pc, locals |-> locals]

Top == stack[Len(stack)]

At(pc) == status = "running" /\ Len(stack) > 0 /\ Top.pc = pc

SetTop(f) == [stack EXCEPT ![Len(stack)] = f]

\* The exception propagates out of parse(): every frame is unwound.
Raise(e) ==
    /\ status' = "error"
    /\ error' = <<e>>
    /\ stack' = <<>>
    /\ UNCHANGED <<tokens, pos, result>>

\* `return n`: the frame is popped and the caller receives n as the value of
\* its pending call; the outermost return is the value of parse().
ReturnTo(stk, n) ==
    IF Len(stk) = 1
    THEN /\ stack' = <<>>
         /\ status' = "done"
         /\ result' = <<n>>
    ELSE /\ stack' = [i \in 1..(Len(stk) - 1) |->
                        IF i = Len(stk) - 1
                        THEN [stk[i] EXCEPT !.locals = Append(@, n)]
                        ELSE stk[i]]
         /\ UNCHANGED <<status, result>>

Call(caller, callee) == stack' = Append(SetTop(caller), callee)

Consume == pos' = Advance(pos) /\ UNCHANGED <<tokens, status, result, error>>

(***************************************************************************)
(* Parser.parse and Parser.S                                               *)
(***************************************************************************)
Parse ==
    /\ status = "ready"
    /\ status' = "running"
    /\ stack' = <<Frame("S", "S76", <<>>)>>
    /\ UNCHANGED <<tokens, pos, result, error>>
    /\ UNCHANGED <<lexvars, main>>

S_76 ==
    /\ At("S76")
    /\ IF MatchOk("IDENT")
       THEN /\ Consume
            /\ stack' = SetTop(Frame("S", "S77", <<Node("a", <<MatchNode>>, <<>>)>>))
       ELSE Raise(MatchError("IDENT"))
    /\ UNCHANGED <<lexvars, main>>

S_77 ==
    /\ At("S77")
    /\ IF MatchOk("ASSIGN")
       THEN /\ Consume
            /\ stack' = SetTop(Frame("S", "S78", Append(Top.locals, MatchNode)))
       ELSE Raise(MatchError("ASSIGN"))
    /\ UNCHANGED <<lexvars, main>>

S_78 ==
    /\ At("S78")
    /\ Call(Frame("S", "S79", Top.locals), Frame("F", "F83", <<>>))
    /\ UNCHANGED <<tokens, pos, status, result, error>>
    /\ UNCHANGED <<lexvars, main>>

\* Mutant of S_79: the SEMICOLON is consumed but its leaf is not appended.
S_79_NoSemicolonLeaf ==
    /\ At("S79")
    /\ IF MatchOk("SEMICOLON")
       THEN /\ pos' = Advance(pos)
            /\ ReturnTo(stack, Node("S", Top.locals, <<>>))
            /\ UNCHANGED <<tokens, error>>
       ELSE Raise(MatchError("SEMICOLON"))
    /\ UNCHANGED <<lexvars, main>>

S_79 ==
    /\ At("S79")
    /\ IF MatchOk("SEMICOLON")
       THEN /\ pos' = Advance(pos)
            /\ ReturnTo(stack, Node("S", Append(Top.locals, MatchNode), <<>>))
            /\ UNCHANGED <<tokens, error>>
       ELSE Raise(MatchError("SEMICOLON"))
    /\ UNCHANGED <<lexvars, main>>

(***************************************************************************)
(* Parser.F                                                                *)
(***************************************************************************)
F_83 ==
    /\ At("F83")
    /\ Call(Frame("F", "F84", <<>>), Frame("T", "T91", <<>>))
    /\ UNCHANGED <<tokens, pos, status, result, error>>
    /\ UNCHANGED <<lexvars, main>>

\* Mutant of F_84: the right operand is parsed by F instead of T.
F_84_RightRecursive ==
    /\ At("F84")
    /\ IF Peek("OP_OR") \/ Peek("OP_XOR")
       THEN IF pos < Len(tokens)
            THEN IF MatchOk(tokens[pos + 1].type)
                 THEN /\ Consume
                      /\ Call(Frame("F", "F87", Append(Top.locals, MatchNode)),
                              Frame("F", "F83", <<>>))
                 ELSE Raise(MatchError(tokens[pos + 1].type))
            ELSE Raise(IndexError)
       ELSE /\ ReturnTo(stack, Top.locals[1])
            /\ UNCHANGED <<tokens, pos, error>>
    /\ UNCHANGED <<lexvars, main>>

\* The loop test, and either lines 85-86 (op = match(...); the call of T) or
\* line 88.  Line 85 indexes tokens[pos] to name the expected type.
F_84 ==
    /\ At("F84")
    /\ IF Peek("OP_OR") \/ Peek("OP_XOR")
       THEN IF pos < Len(tokens)
            THEN IF MatchOk(tokens[pos + 1].type)
                 THEN /\ Consume
                      /\ Call(Frame("F", "F87", Append(Top.locals, MatchNode)),
                              Frame("T", "T91", <<>>))
                 ELSE Raise(MatchError(tokens[pos + 1].type))
            ELSE Raise(IndexError)
       ELSE /\ ReturnTo(stack, Top.locals[1])
            /\ UNCHANGED <<tokens, pos, error>>
    /\ UNCHANGED <<lexvars, main>>

\* Mutant of F_87: the operator leaf is left out of the disjunction node.
F_87_DropsOperator ==
    /\ At("F87")
    /\ stack' = SetTop(Frame("F", "F84",
                             <<Node("F", <<Top.locals[1], Top.locals[3]>>, <<>>)>>))
    /\ UNCHANGED <<tokens, pos, status, result, error>>
    /\ UNCHANGED <<lexvars, main>>

\* locals = [node, op, right]
F_87 ==
    /\ At("F87")
    /\ stack' = SetTop(Frame("F", "F84", <<Node("F", Top.locals, <<>>)>>))
    /\ UNCHANGED <<tokens, pos, status, result, error>>
    /\ UNCHANGED <<lexvars, main>>

(***************************************************************************)
(* Parser.T                                                                *)
(***************************************************************************)
T_91 ==
    /\ At("T91")
    /\ Call(Frame("T", "T92", <<>>), Frame("E", "E99", <<>>))
    /\ UNCHANGED <<tokens, pos, status, result, error>>
    /\ UNCHANGED <<lexvars, main>>

\* Mutant of T_92: the right operand of `and` is parsed by F instead of E.
T_92_RightOperandIsDisjunction ==
    /\ At("T92")
    /\ IF Peek("OP_AND")
       THEN IF MatchOk("OP_AND")
            THEN /\ Consume
                 /\ Call(Frame("T", "T95", Append(Top.locals, MatchNode)),
                         Frame("F", "F83", <<>>))
            ELSE Raise(MatchError("OP_AND"))
       ELSE /\ ReturnTo(stack, Top.locals[1])
            /\ UNCHANGED <<tokens, pos, error>>
    /\ UNCHANGED <<lexvars, main>>

T_92 ==
    /\ At("T92")
    /\ IF Peek("OP_AND")
       THEN IF MatchOk("OP_AND")
            THEN /\ Consume
                 /\ Call(Frame("T", "T95", Append(Top.locals, MatchNode)),
                         Frame("E", "E99", <<>>))
            ELSE Raise(MatchError("OP_AND"))
       ELSE /\ ReturnTo(stack, Top.locals[1])
            /\ UNCHANGED <<tokens, pos, error>>
    /\ UNCHANGED <<lexvars, main>>

T_95 ==
    /\ At("T95")
    /\ stack' = SetTop(Frame("T", "T92", <<Node("T", Top.locals, <<>>)>>))
    /\ UNCHANGED <<tokens, pos, status, result, error>>
    /\ UNCHANGED <<lexvars, main>>

(***************************************************************************)
(* Parser.E                                                                *)
(***************************************************************************)
\* Mutant of E_99: the LPAREN is peeked but not consumed before F is entered.
E_99_KeepsLparen ==
    /\ At("E99")
    /\ IF Peek("LPAREN")
       THEN /\ Call(Frame("E", "E102", <<MatchNode>>), Frame("F", "F83", <<>>))
            /\ UNCHANGED <<tokens, pos, status, result, error>>
       ELSE IF Peek("OP_NOT")
       THEN IF MatchOk("OP_NOT")
            THEN /\ Consume
                 /\ stack' = SetTop(Frame("E", "E106", <<MatchNode>>))
            ELSE Raise(MatchError("OP_NOT"))
       ELSE IF Peek("IDENT") \/ Peek("CONST") \/ Peek("ROMAN") \/ Peek("HEX")
       THEN IF pos < Len(tokens)
            THEN IF MatchOk(tokens[pos + 1].type)
                 THEN /\ pos' = Advance(pos)
                      /\ ReturnTo(stack,
                                  Node("E", <<Node("a", <<MatchNode>>, <<>>)>>, <<>>))
                      /\ UNCHANGED <<tokens, error>>
                 ELSE Raise(MatchError(tokens[pos + 1].type))
            ELSE Raise(IndexError)
       ELSE Raise(ExpressionError)
    /\ UNCHANGED <<lexvars, main>>

E_99 ==
    /\ At("E99")
    /\ IF Peek("LPAREN")
       THEN IF MatchOk("LPAREN")
            THEN /\ Consume
                 /\ Call(Frame("E", "E102", <<MatchNode>>), Frame("F", "F83", <<>>))
            ELSE Raise(MatchError("LPAREN"))
       ELSE IF Peek("OP_NOT")
       THEN IF MatchOk("OP_NOT")
            THEN /\ Consume
                 /\ stack' = SetTop(Frame("E", "E106", <<MatchNode>>))
            ELSE Raise(MatchError("OP_NOT"))
       ELSE IF Peek("IDENT") \/ Peek("CONST") \/ Peek("ROMAN") \/ Peek("HEX")
       THEN IF pos < Len(tokens)
            THEN IF MatchOk(tokens[pos + 1].type)
                 THEN /\ pos' = Advance(pos)
                      /\ ReturnTo(stack,
                                  Node("E", <<Node("a", <<MatchNode>>, <<>>)>>, <<>>))
                      /\ UNCHANGED <<tokens, error>>
                 ELSE Raise(MatchError(tokens[pos + 1].type))
            ELSE Raise(IndexError)
       ELSE Raise(ExpressionError)
    /\ UNCHANGED <<lexvars, main>>

\* locals = [lpar, f]
E_102 ==
    /\ At("E102")
    /\ IF MatchOk("RPAREN")
       THEN /\ pos' = Advance(pos)
            /\ ReturnTo(stack, Node("E", Append(Top.locals, MatchNode), <<>>))
            /\ UNCHANGED <<tokens, error>>
       ELSE Raise(MatchError("RPAREN"))
    /\ UNCHANGED <<lexvars, main>>

\* locals = [not_]
E_106 ==
    /\ At("E106")
    /\ IF MatchOk("LPAREN")
       THEN /\ Consume
            /\ Call(Frame("E", "E108", Append(Top.locals, MatchNode)),
                    Frame("F", "F83", <<>>))
       ELSE Raise(MatchError("LPAREN"))
    /\ UNCHANGED <<lexvars, main>>

\* locals = [not_, lpar, f]
E_108 ==
    /\ At("E108")
    /\ IF MatchOk("RPAREN")
       THEN /\ pos' = Advance(pos)
            /\ ReturnTo(stack, Node("E", Append(Top.locals, MatchNode), <<>>))
            /\ UNCHANGED <<tokens, error>>
       ELSE Raise(MatchError("RPAREN"))
    /\ UNCHANGED <<lexvars, main>>

(***************************************************************************)
(* The grammar, as sets of sequences of token kinds: Grammar(Lits, N)[n]   *)
(* holds the atomic expressions (A), conjunctions (C) and disjunctions (D) *)
(* of exactly n tokens whose literals have a kind in Lits.                 *)
(***************************************************************************)
Grammar(Lits, N) ==
    LET G[n \in 0..N] ==
          IF n = 0 THEN [A |-> {}, C |-> {}, D |-> {}]
          ELSE
          LET A == (IF n = 1 THEN {<<l>> : l \in Lits} ELSE {})
                   \cup (IF n >= 3
                         THEN {<<"LPAREN">> \o d \o <<"RPAREN">> : d \in G[n - 2].D}
                         ELSE {})
                   \cup (IF n >= 4
                         THEN {<<"OP_NOT", "LPAREN">> \o d \o <<"RPAREN">> :
                                 d \in G[n - 3].D}
                         ELSE {})
              C == A \cup UNION {
                     {c \o <<"OP_AND">> \o a : c \in G[i].C, a \in G[n - 1 - i].A} :
                       i \in 1..(n - 2)}
              D == C \cup UNION {
                     {d \o <<op>> \o c :
                        d \in G[i].D, c \in G[n - 1 - i].C, op \in {"OP_OR", "OP_XOR"}} :
                       i \in 1..(n - 2)}
          IN [A |-> A, C |-> C, D |-> D]
    IN G

Disjunctions(Lits, N) == LET G == Grammar(Lits, N) IN UNION {G[n].D : n \in 1..N}

Statement(d) == <<"IDENT", "ASSIGN">> \o d \o <<"SEMICOLON">>

(***************************************************************************)
(* The token sequences a parse is started on                               *)
(***************************************************************************)
InputLits == {"IDENT", "HEX"}
TailKinds == {"SEMICOLON", "IDENT"}

Delete(s, i) == [j \in 1..(Len(s) - 1) |-> IF j < i THEN s[j] ELSE s[j + 1]]

ShortInputs == UNION {[1..n -> Kinds] : n \in 0..MaxShort}

StatementInputs == {Statement(d) : d \in Disjunctions(InputLits, MaxExpr)}

DamagedInputs ==
    UNION {{Delete(s, i) : i \in 1..Len(s)} \cup {Append(s, k) : k \in TailKinds} :
             s \in StatementInputs}

ParserInputs == ShortInputs \cup StatementInputs \cup DamagedInputs

\* The parser never looks at a token's value; each token gets its index as value.
TokensOf(kinds) == [i \in 1..Len(kinds) |-> Token(kinds[i], ToString(i))]

KindsOf(toks) == [i \in 1..Len(toks) |-> toks[i].type]

(***************************************************************************)
(* parse(tokens) called on a token sequence: the state after Parser(tokens)*)
(***************************************************************************)
Init ==
    /\ text = <<>>
    /\ scan = 0
    /\ lex_tokens = <<>>
    /\ lex_state = "idle"
    /\ lex_error = <<>>
    /\ main = "api"
    /\ main_tokens = <<>>
    /\ \E ks \in ParserInputs : tokens = TokensOf(ks)
    /\ pos = 0
    /\ stack = <<>>
    /\ status = "ready"
    /\ result = <<>>
    /\ error = <<>>

Next ==
    \/ Parse
    \/ S_76 \/ S_77 \/ S_78 \/ S_79
    \/ F_83 \/ F_84 \/ F_87
    \/ T_91 \/ T_92 \/ T_95
    \/ E_99 \/ E_102 \/ E_106 \/ E_108

Spec == Init /\ [][Next]_vars

(***************************************************************************)
(* The patterns of token_specification.  An offset o is the number of      *)
(* characters before the place of a match, as in Python; the character     *)
(* after offset o is txt[o + 1].  Each pattern gives the length of its     *)
(* match at o, or 0 when it does not match there (no pattern matches the   *)
(* empty string).                                                          *)
(***************************************************************************)
Digit == {"0", "1", "2", "3", "4", "5", "6", "7", "8", "9"}
Lower == {"a", "b", "c", "d", "e", "f", "g", "h", "i", "j", "k", "l", "m",
          "n", "o", "p", "q", "r", "s", "t", "u", "v", "w", "x", "y", "z"}
Upper == {"A", "B", "C", "D", "E", "F", "G", "H", "I", "J", "K", "L", "M",
          "N", "O", "P", "Q", "R", "S", "T", "U", "V", "W", "X", "Y", "Z"}
HexDigit == Digit \cup {"a", "b", "c", "d", "e", "f", "A", "B", "C", "D", "E", "F"}
RomanLetter == {"I", "V", "X", "L", "C", "D", "M"}
IdentStart == Lower \cup Upper \cup {"_"}
WordChar == Lower \cup Upper \cup Digit \cup {"_"}
Blank == {" ", "\t", "\n"}

IdentTailMax == 31

Least(S) == CHOOSE x \in S : \A y \in S : x <= y
Longest(S) == IF S = {} THEN 0 ELSE CHOOSE x \in S : \A y \in S : y <= x

CharIn(txt, i, class) == i \in 1..Len(txt) /\ txt[i] \in class

\* \b at offset o
Boundary(txt, o) == CharIn(txt, o, WordChar) # CharIn(txt, o + 1, WordChar)

Literal(txt, o, lit) ==
    /\ o + Len(lit) <= Len(txt)
    /\ \A i \in 1..Len(lit) : txt[o + i] = lit[i]

\* The lengths n <= most for which the n characters after o are all in class.
Runs(txt, o, class, most) ==
    {n \in 0..most : o + n <= Len(txt) /\ \A i \in 1..n : txt[o + i] \in class}

\* A greedy repetition followed by \b: the longest repetition that ends at a
\* word boundary, shorter ones being tried when a longer one does not.
Pattern(name, txt, o) ==
    CASE name = "COMMENT" ->
           IF Literal(txt, o, <<"(", "*">>)
           THEN LET ends == {q \in (o + 2)..Len(txt) : Literal(txt, q, <<"*", ")">>)}
                IN IF ends = {} THEN 0 ELSE Least(ends) + 2 - o
           ELSE 0
      [] name = "ASSIGN" -> IF Literal(txt, o, <<":", "=">>) THEN 2 ELSE 0
      [] name = "OP_NOT" -> IF Literal(txt, o, <<"n", "o", "t">>) THEN 3 ELSE 0
      [] name = "OP_AND" -> IF Literal(txt, o, <<"a", "n", "d">>) THEN 3 ELSE 0
      [] name = "OP_OR" -> IF Literal(txt, o, <<"o", "r">>) THEN 2 ELSE 0
      [] name = "OP_XOR" -> IF Literal(txt, o, <<"x", "o", "r">>) THEN 3 ELSE 0
      [] name = "LPAREN" -> IF Literal(txt, o, <<"(">>) THEN 1 ELSE 0
      [] name = "RPAREN" -> IF Literal(txt, o, <<")">>) THEN 1 ELSE 0
      [] name = "SEMICOLON" -> IF Literal(txt, o, <<";">>) THEN 1 ELSE 0
      [] name = "CONST" ->
           IF Boundary(txt, o) /\ Literal(txt, o, <<"t", "r", "u", "e">>)
              /\ Boundary(txt, o + 4)
           THEN 4
           ELSE IF Boundary(txt, o) /\ Literal(txt, o, <<"f", "a", "l", "s", "e">>)
                   /\ Boundary(txt, o + 5)
           THEN 5
           ELSE 0
      [] name = "HEX" ->
           IF Boundary(txt, o) /\ CharIn(txt, o + 1, Digit)
           THEN Longest({1 + n : n \in {m \in Runs(txt, o + 1, HexDigit, Len(txt)) :
                                          Boundary(txt, o + 1 + m)}})
           ELSE 0
      [] name = "ROMAN" ->
           IF Boundary(txt, o)
           THEN Longest({n \in Runs(txt, o, RomanLetter, Len(txt)) :
                           n >= 1 /\ Boundary(txt, o + n)})
           ELSE 0
      [] name = "IDENT" ->
           IF Boundary(txt, o) /\ CharIn(txt, o + 1, IdentStart)
           THEN Longest({1 + n : n \in {m \in Runs(txt, o + 1, WordChar, IdentTailMax) :
                                          Boundary(txt, o + 1 + m)}})
           ELSE 0
      [] name = "SKIP" -> Longest(Runs(txt, o, Blank, Len(txt)))
      [] name = "MISMATCH" -> IF o < Len(txt) THEN 1 ELSE 0

token_specification ==
    <<"COMMENT", "ASSIGN", "OP_NOT", "OP_AND", "OP_OR", "OP_XOR", "LPAREN", "RPAREN",
      "SEMICOLON", "CONST", "HEX", "ROMAN", "IDENT", "SKIP", "MISMATCH">>

\* master_pat at offset o: the alternatives are tried in the order of the list.
Alternatives(txt, o) ==
    {i \in 1..Len(token_specification) : Pattern(token_specification[i], txt, o) > 0}

\* finditer: the next match is the leftmost one at or after the offset `from`.
HasMatch(txt, from) == ~(\A o \in from..Len(txt) : Alternatives(txt, o) = {})

NextMatch(txt, from) ==
    LET o == CHOOSE q \in from..Len(txt) :
               /\ Alternatives(txt, q) # {}
               /\ \A r \in from..(q - 1) : Alternatives(txt, r) = {}
        kind == token_specification[Least(Alternatives(txt, o))]
        n == Pattern(kind, txt, o)
    IN [kind |-> kind,                       \* mo.lastgroup
        value |-> SubSeq(txt, o + 1, o + n), \* mo.group()
        end |-> o + n]

(***************************************************************************)
(* lex                                                                     *)
(***************************************************************************)
Lex_30 ==
    /\ main = "read"
    /\ main' = "lexing"
    /\ lex_state' = "scanning"
    /\ lex_tokens' = <<>>
    /\ scan' = 0
    /\ UNCHANGED <<text, lex_error, main_tokens, parservars>>

\* Mutant of Lex_31: a MISMATCH is skipped like SKIP and COMMENT.
Lex_31_SkipsMismatch ==
    /\ lex_state = "scanning"
    /\ HasMatch(text, scan)
    /\ LET mo == NextMatch(text, scan)
       IN /\ scan' = mo.end
          /\ IF mo.kind \in {"SKIP", "COMMENT", "MISMATCH"}
             THEN UNCHANGED <<lex_tokens, lex_state, lex_error>>
             ELSE /\ lex_tokens' = Append(lex_tokens, Token(mo.kind, mo.value))
                  /\ UNCHANGED <<lex_state, lex_error>>
    /\ UNCHANGED <<text, main, main_tokens, parservars>>

\* One iteration of the loop over finditer
Lex_31 ==
    /\ lex_state = "scanning"
    /\ HasMatch(text, scan)
    /\ LET mo == NextMatch(text, scan)
       IN IF mo.kind = "SKIP" \/ mo.kind = "COMMENT"
          THEN /\ scan' = mo.end
               /\ UNCHANGED <<lex_tokens, lex_state, lex_error>>
          ELSE IF mo.kind = "MISMATCH"
          THEN /\ lex_state' = "raised"
               /\ lex_error' = <<mo.value>>
               /\ UNCHANGED <<scan, lex_tokens>>
          ELSE /\ scan' = mo.end
               /\ lex_tokens' = Append(lex_tokens, Token(mo.kind, mo.value))
               /\ UNCHANGED <<lex_state, lex_error>>
    /\ UNCHANGED <<text, main, main_tokens, parservars>>

\* finditer is exhausted: return tokens, which __main__ binds to `tokens`.
Lex_40 ==
    /\ lex_state = "scanning"
    /\ ~HasMatch(text, scan)
    /\ lex_state' = "returned"
    /\ main_tokens' = <<lex_tokens>>
    /\ main' = "lexed"
    /\ UNCHANGED <<text, scan, lex_tokens, lex_error, parservars>>

(***************************************************************************)
(* __main__, up to the construction of the parser                          *)
(***************************************************************************)
Main_133 ==
    /\ main = "lexed"
    /\ main' = "parsing"
    /\ tokens' = main_tokens[1]
    /\ pos' = 0
    /\ status' = "ready"
    /\ UNCHANGED <<lexvars, stack, result, error>>

Main_139 ==
    /\ main = "lexing"
    /\ lex_state = "raised"
    /\ main' = "reported"
    /\ UNCHANGED <<lexvars, parservars>>

(***************************************************************************)
(* The texts a scan is started on: up to MaxPieces pieces, each a keyword, *)
(* a punctuation mark, a comment delimiter or a single character.          *)
(***************************************************************************)
Pieces ==
    {<<"o", "r">>, <<"a", "n", "d">>, <<"n", "o", "t">>, <<"x", "o", "r">>,
     <<":", "=">>, <<"(">>, <<")">>, <<";">>, <<"(", "*">>, <<"*", ")">>,
     <<"t", "r", "u", "e">>, <<" ">>, <<"1">>, <<"a">>, <<"x">>, <<"I">>, <<"@">>}

RECURSIVE Texts(_)
Texts(n) ==
    IF n = 0 THEN {<<>>}
    ELSE Texts(n - 1) \cup {t \o p : t \in Texts(n - 1), p \in Pieces}

\* The texts of the documented scenarios, and the literals and identifiers named
\* with them.
SampleTexts ==
    {<<"x", " ", ":", "=", " ", "a", " ", "a", "n", "d", " ", "(", "b", " ", "o", "r",
       " ", "n", "o", "t", " ", "(", "c", ")", ")", ";">>,
     <<"x", " ", ":", "=", " ", ";">>,
     <<"x", " ", ":", "=", " ", "a", " ", "@", " ", "b", ";">>,
     <<"1", "a", "3">>,
     <<"0">>,
     <<"I", "V">>,
     <<"M", "C", "M">>,
     <<"f", "a", "l", "s", "e">>,
     <<"o", "r", "d", "e", "r">>,
     <<"a", "n", "d", "r", "o", "i", "d">>,
     <<"n", "o", "t", "x">>,
     <<"x", "o", "r", "1">>,
     <<"(", "*", " ", "a", "\n", "*", ")", "\t", "x", ":", "=", "t", "r", "u", "e", ";">>}

InitLex ==
    /\ text \in Texts(MaxPieces) \cup SampleTexts
    /\ scan = 0
    /\ lex_tokens = <<>>
    /\ lex_state = "idle"
    /\ lex_error = <<>>
    /\ main = "read"
    /\ main_tokens = <<>>
    /\ tokens = <<>>
    /\ pos = 0
    /\ stack = <<>>
    /\ status = "none"
    /\ result = <<>>
    /\ error = <<>>

NextLex == Lex_30 \/ Lex_31 \/ Lex_40 \/ Main_133 \/ Main_139

SpecLex == InitLex /\ [][NextLex]_vars

\* The parse runs to completion once started: it is sequential code.
FairSpec == Spec /\ WF_vars(Next)

(***************************************************************************)
(* Vocabulary of the properties                                            *)
(***************************************************************************)
Halted == status \in {"done", "error"}

LiteralKinds == {"IDENT", "CONST", "ROMAN", "HEX"}

\* The grammar as a recogniser of sequences of token kinds.
RECURSIVE IsDisjunction(_), IsConjunction(_), IsAtomic(_)
IsAtomic(s) ==
    \/ Len(s) = 1 /\ s[1] \in LiteralKinds
    \/ /\ Len(s) >= 3
       /\ s[1] = "LPAREN" /\ s[Len(s)] = "RPAREN"
       /\ IsDisjunction(SubSeq(s, 2, Len(s) - 1))
    \/ /\ Len(s) >= 4
       /\ s[1] = "OP_NOT" /\ s[2] = "LPAREN" /\ s[Len(s)] = "RPAREN"
       /\ IsDisjunction(SubSeq(s, 3, Len(s) - 1))
IsConjunction(s) ==
    \/ IsAtomic(s)
    \/ \E i \in 2..(Len(s) - 1) :
         /\ s[i] = "OP_AND"
         /\ IsAtomic(SubSeq(s, i + 1, Len(s)))
         /\ IsConjunction(SubSeq(s, 1, i - 1))
IsDisjunction(s) ==
    \/ IsConjunction(s)
    \/ \E i \in 2..(Len(s) - 1) :
         /\ s[i] \in {"OP_OR", "OP_XOR"}
         /\ IsConjunction(SubSeq(s, i + 1, Len(s)))
         /\ IsDisjunction(SubSeq(s, 1, i - 1))

IsStatement(s) ==
    /\ Len(s) >= 4
    /\ s[1] = "IDENT" /\ s[2] = "ASSIGN" /\ s[Len(s)] = "SEMICOLON"
    /\ IsDisjunction(SubSeq(s, 3, Len(s) - 1))

Inner(n, name) == n.token = <<>> /\ n.name = name

LeafOf(n, tok) == n = Node(tok.value, <<>>, <<tok>>)

RECURSIVE Subtrees(_)
Subtrees(n) == {n} \cup UNION {Subtrees(n.children[i]) : i \in 1..Len(n.children)}

\* The tokens held by the nodes of a tree, depth first, left to right.
RECURSIVE TokensIn(_), TokensInAll(_)
TokensIn(n) == n.token \o TokensInAll(n.children)
TokensInAll(ns) == IF ns = <<>> THEN <<>> ELSE TokensIn(Head(ns)) \o TokensInAll(Tail(ns))

\* The nodes a frame of the stack holds, and all of them, outermost frame first.
RECURSIVE TokensHeld(_)
TokensHeld(stk) ==
    IF stk = <<>> THEN <<>>
    ELSE TokensHeld(SubSeq(stk, 1, Len(stk) - 1)) \o TokensInAll(stk[Len(stk)].locals)

Tree == result[1]

Body == SubSeq(KindsOf(tokens), 3, Len(tokens) - 1)

Operand(i) == Node("E", <<Node("a", <<Node(tokens[i].value, <<>>, <<tokens[i]>>)>>, <<>>)>>, <<>>)

Operator(i) == Node(tokens[i].value, <<>>, <<tokens[i]>>)

(***************************************************************************)
(* C1: parse() succeeds if and only if the token sequence is exactly one   *)
(* statement IDENT ASSIGN <disjunction> SEMICOLON: on success the cursor   *)
(* equals the number of tokens and the last token is the SEMICOLON; every  *)
(* other token sequence, tokens left over after the SEMICOLON included,    *)
(* fails with an error and no tree.                                        *)
(***************************************************************************)
C1_SucceedsIffExactlyOneStatement ==
    Halted =>
      /\ (status = "done") <=> IsStatement(KindsOf(tokens))
      /\ status = "done" => pos = Len(tokens) /\ tokens[pos].type = "SEMICOLON"
      /\ status = "error" => result = <<>> /\ error # <<>>

(***************************************************************************)
(* C2: every token sequence IDENT ASSIGN <disjunction> SEMICOLON with a    *)
(* derivable <disjunction> parses, and the root is a statement node with   *)
(* exactly 4 children: the wrapper of the IDENT leaf, the ASSIGN leaf, the *)
(* disjunction subtree, the SEMICOLON leaf.                                *)
(***************************************************************************)
C2_StatementParsesToFourChildren ==
    (Halted /\ IsStatement(KindsOf(tokens))) =>
      /\ status = "done"
      /\ result # <<>>
      /\ Inner(Tree, "S")
      /\ Len(Tree.children) = 4
      /\ Inner(Tree.children[1], "a")
      /\ Len(Tree.children[1].children) = 1
      /\ LeafOf(Tree.children[1].children[1], tokens[1])
      /\ LeafOf(Tree.children[2], tokens[2])
      /\ Tree.children[3].token = <<>>
      /\ Tree.children[3].name \in {"F", "T", "E"}
      /\ TokensIn(Tree.children[3]) = SubSeq(tokens, 3, Len(tokens) - 1)
      /\ LeafOf(Tree.children[4], tokens[Len(tokens)])

C2_Witness ==
    /\ status = "done"
    /\ IsStatement(KindsOf(tokens))
    /\ Len(tokens) >= 8
    /\ \E i \in 1..Len(tokens) : tokens[i].type = "OP_NOT"

(***************************************************************************)
(* C3: OP_AND binds tighter than OP_OR/OP_XOR.  `a and b or c` parses to a *)
(* disjunction node whose left child is the conjunction node over a and b  *)
(* and whose right child is the atomic expression of c; `a or b and c` to  *)
(* a disjunction whose right child is the conjunction over b and c; and a  *)
(* conjunction node never has a disjunction node as a direct child.        *)
(***************************************************************************)
AndThenOr(op) == <<"IDENT", "OP_AND", "IDENT", op, "IDENT">>
OrThenAnd(op) == <<"IDENT", op, "IDENT", "OP_AND", "IDENT">>

C3_AndBindsTighterThanOr ==
    /\ status = "done" =>
         \A n \in Subtrees(Tree) :
           Inner(n, "T") => \A i \in 1..Len(n.children) : ~Inner(n.children[i], "F")
    /\ \A op \in {"OP_OR", "OP_XOR"} :
         /\ (Halted /\ Body = AndThenOr(op) /\ IsStatement(KindsOf(tokens))) =>
              /\ status = "done"
              /\ Tree.children[3] =
                   Node("F", <<Node("T", <<Operand(3), Operator(4), Operand(5)>>, <<>>),
                               Operator(6), Operand(7)>>, <<>>)
         /\ (Halted /\ Body = OrThenAnd(op) /\ IsStatement(KindsOf(tokens))) =>
              /\ status = "done"
              /\ Tree.children[3] =
                   Node("F", <<Operand(3), Operator(4),
                               Node("T", <<Operand(5), Operator(6), Operand(7)>>, <<>>)>>,
                        <<>>)

C3_Witness ==
    /\ status = "done"
    /\ Body = AndThenOr("OP_OR")
    /\ Inner(Tree.children[3], "F")
    /\ Inner(Tree.children[3].children[1], "T")

(***************************************************************************)
(* C4: chains associate to the left.  Every disjunction node has exactly   *)
(* three children [left, operator leaf, right] with an OP_OR/OP_XOR leaf   *)
(* in the middle and a right child that is never a disjunction node; every *)
(* conjunction node has [left, OP_AND leaf, right] with an atomic          *)
(* expression as right child and a conjunction or atomic expression as     *)
(* left child.  `a or b or c` is F[F[a, or, b], or, c], in any mix of or   *)
(* and xor, and `a and b and c` is T[T[a, and, b], and, c].                *)
(***************************************************************************)
Chain(op1, op2) == <<"IDENT", op1, "IDENT", op2, "IDENT">>

LeftNested(name) ==
    Node(name, <<Node(name, <<Operand(3), Operator(4), Operand(5)>>, <<>>),
                 Operator(6), Operand(7)>>, <<>>)

C4_ChainsNestToTheLeft ==
    /\ status = "done" =>
         \A n \in Subtrees(Tree) :
           /\ Inner(n, "F") =>
                /\ Len(n.children) = 3
                /\ n.children[1].token = <<>> /\ n.children[1].name \in {"F", "T", "E"}
                /\ n.children[2].token # <<>>
                /\ n.children[2].token[1].type \in {"OP_OR", "OP_XOR"}
                /\ n.children[3].token = <<>> /\ n.children[3].name \in {"T", "E"}
           /\ Inner(n, "T") =>
                /\ Len(n.children) = 3
                /\ n.children[1].token = <<>> /\ n.children[1].name \in {"T", "E"}
                /\ n.children[2].token # <<>>
                /\ n.children[2].token[1].type = "OP_AND"
                /\ Inner(n.children[3], "E")
    /\ \A op1, op2 \in {"OP_OR", "OP_XOR"} :
         (Halted /\ Body = Chain(op1, op2) /\ IsStatement(KindsOf(tokens))) =>
           status = "done" /\ Tree.children[3] = LeftNested("F")
    /\ (Halted /\ Body = Chain("OP_AND", "OP_AND") /\ IsStatement(KindsOf(tokens))) =>
         status = "done" /\ Tree.children[3] = LeftNested("T")

C4_Witness ==
    /\ status = "done"
    /\ Body = Chain("OP_OR", "OP_XOR")
    /\ Tree.children[3] = LeftNested("F")

(***************************************************************************)
(* C5: for every text made only of valid lexemes separated by whitespace,  *)
(* each lexeme matching one of the twelve token rules, lex returns (raises *)
(* no error) exactly one token per lexeme, in order, whose value is the    *)
(* lexeme.  Identifiers that begin with a keyword spelling are included.   *)
(***************************************************************************)
\* The maximal runs of non-blank characters of a text, in order.
RECURSIVE Words(_)
Words(txt) ==
    IF txt = <<>> THEN <<>>
    ELSE IF Head(txt) \in Blank THEN Words(Tail(txt))
    ELSE LET n == Longest({m \in 1..Len(txt) : \A i \in 1..m : txt[i] \notin Blank})
         IN <<SubSeq(txt, 1, n)>> \o Words(SubSeq(txt, n + 1, Len(txt)))

\* w, standing alone, is matched as a whole by one of the token rules.
IsLexeme(w) == \E k \in Kinds : Pattern(k, w, 0) = Len(w)

MadeOfLexemes(txt) == \A i \in 1..Len(Words(txt)) : IsLexeme(Words(txt)[i])

ValuesOf(toks) == [i \in 1..Len(toks) |-> toks[i].value]

C5_EveryLexemeIsOneToken ==
    (lex_state \in {"returned", "raised"} /\ MadeOfLexemes(text)) =>
      /\ lex_state = "returned"
      /\ ValuesOf(lex_tokens) = Words(text)

(***************************************************************************)
(* C7: lex raises, with the offending single character, as soon as the     *)
(* scan reaches an offset where no rule other than MISMATCH matches; when  *)
(* it has raised no token sequence reaches the caller: `tokens` of         *)
(* __main__ stays unassigned and no parser is constructed.                 *)
(***************************************************************************)
OnlyMismatchAt(txt, o) ==
    /\ o < Len(txt)
    /\ \A i \in 1..Len(token_specification) :
         token_specification[i] # "MISMATCH" => Pattern(token_specification[i], txt, o) = 0

C7_MismatchRaisesAndExposesNothing ==
    /\ [](lex_state = "raised" =>
            /\ OnlyMismatchAt(text, scan)
            /\ lex_error = <<(<<text[scan + 1]>>)>>
            /\ main_tokens = <<>>
            /\ tokens = <<>>
            /\ status = "none"
            /\ main \in {"lexing", "reported"})
    /\ [][(lex_state = "scanning" /\ OnlyMismatchAt(text, scan)) =>
            lex_state' = "raised"]_vars
    /\ [][lex_state = "raised" => lex_state' = "raised"]_vars

C7_Witness ==
    /\ lex_state = "raised"
    /\ main = "reported"
    /\ Len(lex_tokens) >= 1
    /\ lex_error = <<(<<"@">>)>>

(***************************************************************************)
(* C6: every error of a parse carries the expected kind and the actual     *)
(* kind of the token at the cursor, or the end-of-input marker when the    *)
(* cursor is past the last token.                                          *)
(***************************************************************************)
C6_ErrorCarriesExpectedAndActual ==
    status = "error" =>
      /\ error # <<>>
      /\ "expected" \in DOMAIN error[1]
      /\ "actual" \in DOMAIN error[1]
      /\ error[1].actual = IF pos < Len(tokens) THEN tokens[pos + 1].type ELSE "EOF"

(***************************************************************************)
(* C8: the cursor starts at 0, stays within 0..len(tokens), never          *)
(* decreases, and changes only by +1 in a step that consumes the token at  *)
(* the cursor; a step that fails, or that only peeks, leaves the cursor    *)
(* unchanged; no step changes the token sequence; tokens[pos] is never     *)
(* read with pos >= len(tokens).                                           *)
(***************************************************************************)
C8_CursorFrame ==
    /\ [](status = "ready" => pos = 0)
    /\ [](pos \in 0..Len(tokens))
    /\ [](error # <<>> => error[1].kind # "IndexError")
    /\ [][/\ tokens' = tokens
          /\ pos' \in {pos, pos + 1}
          /\ pos' = pos + 1 =>
               /\ pos < Len(tokens)
               /\ status' # "error"
               /\ (IF status' = "done" THEN TokensIn(result'[1]) ELSE TokensHeld(stack'))
                    = SubSeq(tokens, 1, pos + 1)
          /\ status' = "error" => pos' = pos]_vars

C8_Witness ==
    /\ status = "error"
    /\ pos = Len(tokens)
    /\ pos >= 6

(***************************************************************************)
(* C9: on every successful parse the tokens of the tree's leaves, read     *)
(* depth first from left to right, are tokens[0 .. pos): each consumed     *)
(* token is wrapped by exactly one leaf, none dropped, duplicated or       *)
(* reordered.  While the parse runs the nodes held so far wrap exactly the *)
(* tokens before the cursor.                                               *)
(***************************************************************************)
C9_LeavesAreConsumedTokens ==
    /\ status = "done" => TokensIn(Tree) = SubSeq(tokens, 1, pos)
    /\ status = "done" =>
         \A n \in Subtrees(Tree) : n.token # <<>> => n.children = <<>> /\ n.name = n.token[1].value
    /\ status = "running" => TokensHeld(stack) = SubSeq(tokens, 1, pos)

C9_Witness ==
    /\ status = "done"
    /\ pos >= 9
    /\ \E n \in Subtrees(Tree) : Inner(n, "T")
    /\ \E n \in Subtrees(Tree) : Inner(n, "E") /\ Len(n.children) = 4

(***************************************************************************)
(* C10: every parse terminates, with a tree or with an error.  A loop      *)
(* iteration of F or T, and an entry of E into F, happens only in a step   *)
(* that has consumed a token, so there are at most len(tokens) of them,   *)
(* and the depth of the recursion is bounded by the tokens consumed: S, F, *)
(* T, E at most once before the first token and F, T, E once per token.    *)
(***************************************************************************)
EntersLoopOrRecursion ==
    /\ Len(stack) > 0
    /\ Len(stack') = Len(stack) + 1
    /\ stack'[Len(stack)].pc \in {"F87", "T95", "E102", "E108"}

C10_ParseTerminates ==
    /\ <>Halted
    /\ [][EntersLoopOrRecursion => pos' = pos + 1 /\ pos' <= Len(tokens)]_vars
    /\ [](Len(stack) <= 2 + 3 * pos)

C10_Witness ==
    /\ status = "done"
    /\ \E n \in Subtrees(Tree) : Inner(n, "F")
    /\ \E n \in Subtrees(Tree) : Inner(n, "T")
    /\ \E n \in Subtrees(Tree) : Inner(n, "E") /\ Len(n.children) = 3

====
